---- MODULE Spec2Model ----
(***************************************************************************)
(* Model of the action-item extractor of the meeting-notes generator:      *)
(* LLMService._parse_action_items and LLMService._parse_text_action_items  *)
(* (src/services/llm_service.py).  Text is modelled character by           *)
(* character: a Python str is a sequence of one-character strings.         *)
(***************************************************************************)
EXTENDS Integers, Sequences, FiniteSets, TLC

(***************************************************************************)
(* Python str primitives used by the extractor.                            *)
(***************************************************************************)

\* str.isspace() on one character (the whitespace str.strip() and \s remove)
IsSpace(c) == c \in {" ", "\t", "\n", "\r"}

Min(S) == CHOOSE x \in S : \A y \in S : x <= y
Max(S) == CHOOSE x \in S : \A y \in S : y <= x

\* index of the first non-whitespace character of s at or after i, Len(s)+1 if none
FirstNonSpace(s, i) ==
    Min({j \in i..Len(s) : ~IsSpace(s[j])} \cup {Len(s) + 1})

\* index of the last non-whitespace character of s, 0 if none: Len(s) less
\* the length of the run of whitespace that ends s
LastNonSpace(s) ==
    Len(s) - Cardinality({j \in 1..Len(s) : \A m \in j..Len(s) : IsSpace(s[m])})

\* str.strip()
strip(s) ==
    LET a == FirstNonSpace(s, 1)
        b == LastNonSpace(s)
    IN  IF a > b THEN <<>> ELSE SubSeq(s, a, b)

\* the k-th smallest element of a set of integers
Nth(S, k) == CHOOSE x \in S : Cardinality({y \in S : y < x}) = k - 1

\* text.split('\n'): the pieces between consecutive line breaks
split(text) ==
    LET ends == {i \in 1..Len(text) : text[i] = "\n"} \cup {Len(text) + 1}
    IN  [k \in 1..Cardinality(ends) |->
            SubSeq(text, IF k = 1 THEN 1 ELSE Nth(ends, k - 1) + 1, Nth(ends, k) - 1)]

\* str.lower() on the upper-case letters
LowerTable ==
    [c \in {"A","B","C","D","E","F","G","H","I","J","K","L","M",
            "N","O","P","Q","R","S","T","U","V","W","X","Y","Z"} |->
       CASE c = "A" -> "a" [] c = "B" -> "b" [] c = "C" -> "c" [] c = "D" -> "d"
         [] c = "E" -> "e" [] c = "F" -> "f" [] c = "G" -> "g" [] c = "H" -> "h"
         [] c = "I" -> "i" [] c = "J" -> "j" [] c = "K" -> "k" [] c = "L" -> "l"
         [] c = "M" -> "m" [] c = "N" -> "n" [] c = "O" -> "o" [] c = "P" -> "p"
         [] c = "Q" -> "q" [] c = "R" -> "r" [] c = "S" -> "s" [] c = "T" -> "t"
         [] c = "U" -> "u" [] c = "V" -> "v" [] c = "W" -> "w" [] c = "X" -> "x"
         [] c = "Y" -> "y" [] c = "Z" -> "z"]

\* str.lower()
lower(s) == [i \in 1..Len(s) |-> IF s[i] \in DOMAIN LowerTable THEN LowerTable[s[i]] ELSE s[i]]

\* sub in s
contains(sub, s) ==
    \E i \in 1..(Len(s) - Len(sub) + 1) : SubSeq(s, i, i + Len(sub) - 1) = sub

\* s.startswith(c) for a one-character prefix
startswith(s, c) == Len(s) >= 1 /\ s[1] = c

\* re.sub(r'^[-*]\s*', '', line): one leading bullet and the whitespace after it
re_sub_bullet(line) ==
    IF startswith(line, "-") \/ startswith(line, "*")
    THEN SubSeq(line, FirstNonSpace(line, 2), Len(line))
    ELSE line

(***************************************************************************)
(* The line-based fallback, _parse_text_action_items.                      *)
(***************************************************************************)

Unassigned == <<"U","n","a","s","s","i","g","n","e","d">>
NoDueDate  == <<"N","o"," ","d","u","e"," ","d","a","t","e"," ","s","p","e","c","i","f","i","e","d">>
Medium     == <<"M","e","d","i","u","m">>

\* the [:10] slice at the end of _parse_text_action_items
MaxItems == 10

\* the condition without the 'action' test
Qualifies_BulletOnly(line) ==
    /\ line # <<>>
    /\ \/ startswith(line, "-")
       \/ startswith(line, "*")

\* the condition of the if on a stripped line
Qualifies(line) ==
    /\ line # <<>>
    /\ \/ startswith(line, "-")
       \/ startswith(line, "*")
       \/ contains(<<"a","c","t","i","o","n">>, lower(line))

\* the dict appended for one qualifying line
TextItem(clean_line) ==
    [description |-> clean_line, assignee |-> Unassigned,
     due_date |-> NoDueDate, priority |-> Medium]

\* a stripped line for which the loop body appends an item
Emits(line) == Qualifies(line) /\ re_sub_bullet(line) # <<>>

\* the for loop over lines: one item per emitting line, in line order
TextLoop(lines) ==
    LET stripped == [k \in 1..Len(lines) |-> strip(lines[k])]
        emitting == SelectSeq(stripped, Emits)
    IN  [k \in 1..Len(emitting) |-> TextItem(re_sub_bullet(emitting[k]))]

\* action_items[-10:]
Slice_Last(items, n) ==
    SubSeq(items, IF Len(items) < n THEN 1 ELSE Len(items) - n + 1, Len(items))

\* action_items[:10]
Slice(items, n) == SubSeq(items, 1, IF Len(items) < n THEN Len(items) ELSE n)

_parse_text_action_items(text) == Slice(TextLoop(split(text)), MaxItems)

(***************************************************************************)
(* json.loads on the bracketed region (json.decoder / json.scanner).       *)
(* A decoded value is a tagged record: [t |-> "str", s |-> characters],    *)
(* [t |-> "num"], [t |-> "const"] (null, true, false, NaN, Infinity),      *)
(* [t |-> "list", a |-> values], [t |-> "dict", d |-> key :> value].       *)
(* A decoder step returns [ok |-> TRUE, val |-> value, end |-> next index] *)
(* or [ok |-> FALSE], which stands for json.JSONDecodeError.               *)
(* The modelled text has no backslash, so string escapes do not occur.     *)
(***************************************************************************)

JSONDecodeError == [ok |-> FALSE]

\* the characters of json.decoder.WHITESPACE
IsJsonWs(c) == c \in {" ", "\t", "\n", "\r"}

\* WHITESPACE.match(s, i).end()
SkipWs(s, i) ==
    Min({j \in i..Len(s) : ~IsJsonWs(s[j])} \cup {IF i > Len(s) THEN i ELSE Len(s) + 1})

IsDigit(c) == c \in {"0","1","2","3","4","5","6","7","8","9"}

\* index after the run of digits that starts at i
DigitsEnd(s, i) ==
    Min({j \in i..Len(s) : ~IsDigit(s[j])} \cup {IF i > Len(s) THEN i ELSE Len(s) + 1})

\* s[i:i+len(word)] == word
IsAt(s, i, word) ==
    /\ i + Len(word) - 1 <= Len(s)
    /\ SubSeq(s, i, i + Len(word) - 1) = word

\* NUMBER_RE.match(s, i): index after the number at i, 0 when there is none
\*   (-?(?:0|[1-9][0-9]*))(\.[0-9]+)?([eE][-+]?[0-9]+)?
match_number(s, i) ==
    LET p0 == IF i <= Len(s) /\ s[i] = "-" THEN i + 1 ELSE i
    IN  IF ~(p0 <= Len(s) /\ IsDigit(s[p0])) THEN 0
        ELSE LET p1 == IF s[p0] = "0" THEN p0 + 1 ELSE DigitsEnd(s, p0 + 1)
                 p2 == IF p1 + 1 <= Len(s) /\ s[p1] = "." /\ IsDigit(s[p1 + 1])
                       THEN DigitsEnd(s, p1 + 2) ELSE p1
                 q  == IF p2 + 1 <= Len(s) /\ s[p2 + 1] \in {"-", "+"}
                       THEN p2 + 2 ELSE p2 + 1
             IN  IF p2 <= Len(s) /\ s[p2] \in {"e", "E"}
                    /\ q <= Len(s) /\ IsDigit(s[q])
                 THEN DigitsEnd(s, q + 1) ELSE p2

\* index of the first '"' or control character of s at or after i, 0 if none
StringEnd(s, i) ==
    LET stops == {j \in i..Len(s) : s[j] \in {"\"", "\n", "\t", "\r"}}
    IN  IF stops = {} THEN 0 ELSE Min(stops)

\* scanstring(s, i) in strict mode, i the index after the opening quote
scanstring(s, i) ==
    LET e == StringEnd(s, i)
    IN  IF e = 0 THEN JSONDecodeError               \* unterminated string
        ELSE IF s[e] # "\"" THEN JSONDecodeError    \* invalid control character
        ELSE [ok |-> TRUE, val |-> [t |-> "str", s |-> SubSeq(s, i, e - 1)], end |-> e + 1]

Const(s, i, word) == [ok |-> TRUE, val |-> [t |-> "const"], end |-> i + Len(word)]

RECURSIVE scan_once(_, _)
RECURSIVE JSONArrayLoop(_, _, _)
RECURSIVE JSONObjectLoop(_, _, _)

\* JSONArray, i the index after '['
JSONArray(s, i) ==
    LET e == SkipWs(s, i)
    IN  IF e <= Len(s) /\ s[e] = "]"
        THEN [ok |-> TRUE, val |-> [t |-> "list", a |-> <<>>], end |-> e + 1]
        ELSE JSONArrayLoop(s, e, <<>>)

\* the while loop of JSONArray: the next value starts at i
JSONArrayLoop(s, i, values) ==
    LET r == scan_once(s, i)
    IN  IF ~r.ok THEN JSONDecodeError               \* expecting value
        ELSE LET e == SkipWs(s, r.end)
                 vs == Append(values, r.val)
             IN  IF e > Len(s) THEN JSONDecodeError \* expecting ',' delimiter
                 ELSE IF s[e] = "]"
                      THEN [ok |-> TRUE, val |-> [t |-> "list", a |-> vs], end |-> e + 1]
                 ELSE IF s[e] # "," THEN JSONDecodeError
                 ELSE JSONArrayLoop(s, SkipWs(s, e + 1), vs)

\* JSONObject, i the index after '{'
JSONObject(s, i) ==
    LET e == SkipWs(s, i)
    IN  IF e > Len(s) THEN JSONDecodeError
        ELSE IF s[e] = "}"
             THEN [ok |-> TRUE, val |-> [t |-> "dict", d |-> << >>], end |-> e + 1]
        ELSE IF s[e] # "\"" THEN JSONDecodeError    \* expecting property name
        ELSE JSONObjectLoop(s, e + 1, << >>)

\* dict(pairs) after one more pair: a repeated key keeps its last value
SetItem(d, key, value) ==
    [k \in DOMAIN d \cup {key} |-> IF k = key THEN value ELSE d[k]]

\* the while loop of JSONObject: a key starts at i, after its opening quote
JSONObjectLoop(s, i, pairs) ==
    LET k == scanstring(s, i)
    IN  IF ~k.ok THEN JSONDecodeError
        ELSE LET c == SkipWs(s, k.end)
             IN  IF ~(c <= Len(s) /\ s[c] = ":") THEN JSONDecodeError  \* expecting ':'
                 ELSE LET r == scan_once(s, SkipWs(s, c + 1))
                      IN  IF ~r.ok THEN JSONDecodeError                \* expecting value
                          ELSE LET e == SkipWs(s, r.end)
                                   ps == SetItem(pairs, k.val.s, r.val)
                               IN  IF e > Len(s) THEN JSONDecodeError
                                   ELSE IF s[e] = "}"
                                        THEN [ok |-> TRUE, val |-> [t |-> "dict", d |-> ps],
                                              end |-> e + 1]
                                   ELSE IF s[e] # "," THEN JSONDecodeError
                                   ELSE LET n == SkipWs(s, e + 1)
                                        IN  IF n <= Len(s) /\ s[n] = "\""
                                            THEN JSONObjectLoop(s, n + 1, ps)
                                            ELSE JSONDecodeError

\* _scan_once of json.scanner: the value that starts at index i
scan_once(s, i) ==
    IF i > Len(s) THEN JSONDecodeError
    ELSE IF s[i] = "\"" THEN scanstring(s, i + 1)
    ELSE IF s[i] = "{" THEN JSONObject(s, i + 1)
    ELSE IF s[i] = "[" THEN JSONArray(s, i + 1)
    ELSE IF IsAt(s, i, <<"n","u","l","l">>) THEN Const(s, i, <<"n","u","l","l">>)
    ELSE IF IsAt(s, i, <<"t","r","u","e">>) THEN Const(s, i, <<"t","r","u","e">>)
    ELSE IF IsAt(s, i, <<"f","a","l","s","e">>) THEN Const(s, i, <<"f","a","l","s","e">>)
    ELSE IF match_number(s, i) # 0
         THEN [ok |-> TRUE, val |-> [t |-> "num"], end |-> match_number(s, i)]
    ELSE IF IsAt(s, i, <<"N","a","N">>) THEN Const(s, i, <<"N","a","N">>)
    ELSE IF IsAt(s, i, <<"I","n","f","i","n","i","t","y">>) THEN Const(s, i, <<"I","n","f","i","n","i","t","y">>)
    ELSE IF IsAt(s, i, <<"-","I","n","f","i","n","i","t","y">>) THEN Const(s, i, <<"-","I","n","f","i","n","i","t","y">>)
    ELSE JSONDecodeError

\* json.loads(s): one value, surrounded by whitespace only
json_loads(s) ==
    LET r == scan_once(s, SkipWs(s, 1))
    IN  IF ~r.ok THEN JSONDecodeError
        ELSE IF SkipWs(s, r.end) # Len(s) + 1 THEN JSONDecodeError   \* extra data
        ELSE r

(***************************************************************************)
(* The structured path and the handlers of _parse_action_items.            *)
(***************************************************************************)

\* the search with a non-greedy .*?: the match ends at the first ']' after its start
SearchFrom_NonGreedy(s, i) ==
    LET closes == {j \in i..Len(s) : s[j] = "]"}
        starts == {j \in i..Len(s) : s[j] = "[" /\ \E k \in closes : k > j}
    IN  IF starts = {} THEN [matched |-> FALSE]
        ELSE [matched |-> TRUE, start |-> Min(starts),
              end |-> Min({k \in closes : k > Min(starts)})]

\* re.search tries each start position from the left: the match starts at the
\* first '[' that has a ']' after it, and the greedy .* (DOTALL) runs to the
\* last ']' of the text
SearchFrom(s, i) ==
    LET closes == {j \in i..Len(s) : s[j] = "]"}
        starts == {j \in i..Len(s) : s[j] = "[" /\ \E k \in closes : k > j}
    IN  IF starts = {} THEN [matched |-> FALSE]
        ELSE [matched |-> TRUE, start |-> Min(starts), end |-> Max(closes)]

\* re.search(r'\[.*\]', response, re.DOTALL)
re_search(response) == SearchFrom(response, 1)

KDescription == <<"d","e","s","c","r","i","p","t","i","o","n">>
KAssignee    == <<"a","s","s","i","g","n","e","e">>
KDueDate     == <<"d","u","e","_","d","a","t","e">>
KPriority    == <<"p","r","i","o","r","i","t","y">>

\* item.get(key, default), default a str
get(item, key, default) ==
    IF key \in DOMAIN item.d THEN item.d[key] ELSE [t |-> "str", s |-> default]

\* value.strip() is defined on str only; on any other value it raises AttributeError
CanStrip(v) == v.t = "str"

\* the four .get(...).strip() calls of the dict display all succeed
FieldsStrip(item) ==
    /\ CanStrip(get(item, KDescription, <<>>))
    /\ CanStrip(get(item, KAssignee, Unassigned))
    /\ CanStrip(get(item, KDueDate, NoDueDate))
    /\ CanStrip(get(item, KPriority, Medium))

\* cleaned_item with '' as the default of every field
CleanedItem_EmptyDefaults(item) ==
    [description |-> strip(get(item, KDescription, <<>>).s),
     assignee    |-> strip(get(item, KAssignee, <<>>).s),
     due_date    |-> strip(get(item, KDueDate, <<>>).s),
     priority    |-> strip(get(item, KPriority, <<>>).s)]

\* cleaned_item built by updating a copy of item: other keys of item stay
CleanedItem_KeepsOtherKeys(item) ==
    LET others == {k \in DOMAIN item.d \ {KDescription, KAssignee, KDueDate, KPriority} :
                      item.d[k].t = "str"}
    IN  [f \in {"description", "assignee", "due_date", "priority"}
               \cup (IF others = {} THEN {} ELSE {"other"}) |->
            CASE f = "description" -> strip(get(item, KDescription, <<>>).s)
              [] f = "assignee"    -> strip(get(item, KAssignee, Unassigned).s)
              [] f = "due_date"    -> strip(get(item, KDueDate, NoDueDate).s)
              [] f = "priority"    -> strip(get(item, KPriority, Medium).s)
              [] OTHER             -> item.d[CHOOSE k \in others : TRUE].s]

\* cleaned_item
CleanedItem(item) ==
    [description |-> strip(get(item, KDescription, <<>>).s),
     assignee    |-> strip(get(item, KAssignee, Unassigned).s),
     due_date    |-> strip(get(item, KDueDate, NoDueDate).s),
     priority    |-> strip(get(item, KPriority, Medium).s)]

\* isinstance(item, dict) and 'description' in item
IsCandidate(item) == item.t = "dict" /\ KDescription \in DOMAIN item.d

\* the loop without the check of the description
Keep_Always(cleaned_item) == TRUE

\* if cleaned_item['description']
Keep(cleaned_item) == cleaned_item.description # <<>>

RECURSIVE CleanLoop(_, _, _)
\* the for loop over the decoded list, from entry i on
CleanLoop(action_items, i, cleaned_items) ==
    IF i > Len(action_items) THEN [exc |-> "none", ret |-> cleaned_items]
    ELSE LET item == action_items[i]
         IN  IF ~IsCandidate(item) THEN CleanLoop(action_items, i + 1, cleaned_items)
             ELSE IF ~FieldsStrip(item) THEN [exc |-> "AttributeError", ret |-> <<>>]
             ELSE IF Keep(CleanedItem(item))
                  THEN CleanLoop(action_items, i + 1,
                                 Append(cleaned_items, CleanedItem(item)))
                  ELSE CleanLoop(action_items, i + 1, cleaned_items)

\* the body of the try statement: what it returns, or the exception it raises,
\* with the branch taken and the text handed to json.loads
TryBody(response) ==
    LET json_match == re_search(response)
    IN  IF json_match.matched
        THEN LET json_str == SubSeq(response, json_match.start, json_match.end)
                 loaded == json_loads(json_str)
             IN  IF ~loaded.ok
                 THEN [exc |-> "JSONDecodeError", ret |-> <<>>,
                       via |-> "structured", json_str |-> json_str]
                 ELSE [exc |-> CleanLoop(loaded.val.a, 1, <<>>).exc,
                       ret |-> CleanLoop(loaded.val.a, 1, <<>>).ret,
                       via |-> "structured", json_str |-> json_str]
        ELSE [exc |-> "none", ret |-> _parse_text_action_items(response),
              via |-> "fallback", json_str |-> <<>>]

\* Handlers without the final except Exception clause: only JSONDecodeError is
\* caught, any other exception leaves the function
Handlers_NoCatchAll(response, body) ==
    IF body.exc = "JSONDecodeError"
    THEN [body EXCEPT !.exc = "none", !.ret = _parse_text_action_items(response),
                      !.via = "fallback"]
    ELSE body

\* Handlers with one except Exception clause that runs the fallback
Handlers_AlwaysFallback(response, body) ==
    IF body.exc = "none" THEN body
    ELSE [body EXCEPT !.exc = "none", !.ret = _parse_text_action_items(response),
                      !.via = "fallback"]

\* Handlers whose JSONDecodeError clause returns [] like the last clause
Handlers_SyntaxErrorEmpty(response, body) ==
    IF body.exc = "none" THEN body
    ELSE [body EXCEPT !.exc = "none", !.ret = <<>>, !.via = "empty"]

\* the except clauses, applied to the outcome of the try body
Handlers(response, body) ==
    IF body.exc = "none" THEN body
    ELSE IF body.exc = "JSONDecodeError"
         THEN [body EXCEPT !.exc = "none", !.ret = _parse_text_action_items(response),
                           !.via = "fallback"]
         ELSE [body EXCEPT !.exc = "none", !.ret = <<>>, !.via = "empty"]

\* _parse_action_items(response): ret is the list returned, exc the exception
\* that leaves the function ("none" when it returns), via the return taken
_parse_action_items(response) == Handlers(response, TryBody(response))

(***************************************************************************)
(* The responses the extractor is run on: prose, then optionally a         *)
(* bracketed array of entries (well-formed or damaged), then trailing      *)
(* lines.                                                                   *)
(***************************************************************************)

\* most entries between the brackets
MaxEntries == 3
\* most trailing lines
MaxLines == 11

Before ==
    { <<>>,
      <<"H","e","r","e"," ","a","r","e"," ","t","h","e"," ","a","c","t","i","o","n"," ","i","t","e","m","s",":"," ">>,
      <<"N","o"," ","a","c","t","i","o","n"," ","i","t","e","m","s"," ","t","h","i","s"," ","w","e","e","k",".">>,
      <<"S","e","e"," ","[","1","]",":"," ">>,
      <<"-","\n">> }

Entries ==
    { <<"{","\"","d","e","s","c","r","i","p","t","i","o","n","\"",":","\""," ","S","e","n","d"," ","r","e","p","o","r","t"," ","\"",",","\"","a","s","s","i","g","n","e","e","\"",":","\"","B","o","b","\"",",","\"","e","x","t","r","a","\"",":","\"","x","\"","}">>,
      <<"{","\"","d","e","s","c","r","i","p","t","i","o","n","\"",":","\""," ","\"",",","\"","a","s","s","i","g","n","e","e","\"",":","\"","A","m","y","\"","}">>,
      <<"{","\"","d","e","s","c","r","i","p","t","i","o","n","\"",":","\"","C","a","l","l","\"",",","\"","p","r","i","o","r","i","t","y","\"",":","1","}">>,
      <<"\"","n","o","t","e","\"">> }

\* what follows the last entry: a closing bracket, a trailing comma, nothing,
\* a closing bracket on a bulleted line of its own
Closings ==
    { <<"]">>, <<",","]">>, <<>>, <<"\n","-"," ","]">> }

Lines ==
    { <<"-"," ","F","o","l","l","o","w"," ","u","p"," ","w","i","t","h"," ","c","l","i","e","n","t">>,
      <<"*"," ","S","c","h","e","d","u","l","e"," ","d","e","m","o"," ","[","x","]">>,
      <<"N","o"," ","o","t","h","e","r"," ","n","o","t","e","s",".">> }

RECURSIVE JoinWith(_, _, _)
\* sep.join(parts[i:])
JoinWith(sep, parts, i) ==
    IF i > Len(parts) THEN <<>>
    ELSE IF i = Len(parts) THEN parts[i]
    ELSE parts[i] \o sep \o JoinWith(sep, parts, i + 1)

\* '[' entries joined by ',' and then the closing
Region(entries, closing) == <<"[">> \o JoinWith(<<",">>, entries, 1) \o closing

RECURSIVE TrailingLines(_, _, _)
\* k trailing lines, a and b in turn, each after a line break
TrailingLines(a, b, k) ==
    IF k = 0 THEN <<>> ELSE TrailingLines(a, b, k - 1) \o <<"\n">> \o (IF k % 2 = 1 THEN a ELSE b)

EntrySeqs(n) == UNION { [1..m -> Entries] : m \in 0..n }

Regions(n) ==
    {<<>>} \cup { Region(es, c) : es \in EntrySeqs(n), c \in Closings }

Tails(n) ==
    { TrailingLines(a, b, k) : a \in Lines, b \in Lines, k \in 0..n }

\* prose and an array of up to MaxEntries entries, or prose, an array of at
\* most one entry and up to MaxLines trailing lines
Inputs ==
    { b \o r : b \in Before, r \in Regions(MaxEntries) }
    \cup
    { b \o r \o t : b \in Before, r \in Regions(1), t \in Tails(MaxLines) }

(***************************************************************************)
(* The state machine: a response is received, the extractor runs on it,    *)
(* and it is run again on the text of the descriptions it returned.        *)
(***************************************************************************)

\* response: the raw model output handed to _parse_action_items
\* pc:       "received", "parsed", "reparsed"
\* out:      outcome of _parse_action_items(response)
\* again:    outcome of the second run, on the descriptions of out
VARIABLES response, pc, out, again,
          uploads, meetings, action_items, sqlite_sequence, now, req,
          service, events, objects

vars == <<response, pc, out, again,
          uploads, meetings, action_items, sqlite_sequence, now, req,
          service, events, objects>>

NotRun == [exc |-> "none", ret |-> <<>>, via |-> "pending", json_str |-> <<>>]

\* the descriptions of the items, one per line
DescriptionText(items) ==
    JoinWith(<<"\n">>, [k \in 1..Len(items) |-> items[k].description], 1)

(***************************************************************************)
(* The web application (src/app/main.py), the two tables of meetings.db    *)
(* (src/models) and the upload folder: what the requests served at the     *)
(* same time by the threaded server (src/run.py) share.                    *)
(***************************************************************************)

\* uploads:         the upload folder: file name -> whose audio the file holds
\* meetings:        table meetings: id -> row
\* action_items:    table action_items: id -> row
\* sqlite_sequence: the AUTOINCREMENT counters of the two tables
\* now:             datetime.now(), a tick per reading
\* req:             the requests being served: request -> its local variables
\* service:         calendar_service.service is set (the one CalendarService
\*                  object of the application is authenticated)
\* events:          the events of the Google calendar, in the order created
\* objects:         per model class the object save() was last called on
\*                  outside a request, with the id it has after the call

\* the requests served at the same time
Requests == {"r1", "r2"}

\* Python's None
None == "None"

\* a request slot on which nothing has arrived
NoRequest == [handler |-> "none", pc |-> "idle"]

\* names a file can have in the upload folder: what secure_filename returns
\* for the file names of the uploads
StoredNames == { <<"a",".","w","a","v">>, <<"b",".","m","p","3">> }

\* no object of a model class was saved
NoObject == [object |-> [id |-> 0], id |-> 0]

\* nothing uploaded, nothing stored, nothing being served
ServerIdle ==
    /\ uploads = [n \in StoredNames |-> None]
    /\ meetings = <<>>
    /\ action_items = <<>>
    /\ sqlite_sequence = [meetings |-> 0, action_items |-> 0]
    /\ now = 0
    /\ req = [r \in Requests |-> NoRequest]
    /\ service = FALSE
    /\ events = <<>>
    /\ objects = [meetings |-> NoObject, action_items |-> NoObject]

web == <<uploads, meetings, action_items, sqlite_sequence, now, req, service, events,
         objects>>

calendar == <<service, events>>

extractor == <<response, pc, out, again>>

Init ==
    /\ response \in Inputs
    /\ pc = "received"
    /\ out = NotRun
    /\ again = NotRun
    /\ ServerIdle

ParseActionItems ==
    /\ pc = "received"
    /\ out' = _parse_action_items(response)
    /\ pc' = "parsed"
    /\ UNCHANGED <<response, again>>
    /\ UNCHANGED web

ParseAgain ==
    /\ pc = "parsed"
    /\ again' = _parse_action_items(DescriptionText(out.ret))
    /\ pc' = "reparsed"
    /\ UNCHANGED <<response, out>>
    /\ UNCHANGED web

Next == ParseActionItems \/ ParseAgain

Spec == Init /\ [][Next]_vars

(***************************************************************************)
(* POST /process_audio (src/app/main.py:42-110) and what it calls.         *)
(***************************************************************************)

\* the characters werkzeug's secure_filename keeps: [A-Za-z0-9_.-]
SafeChars ==
    { "a", "b", "c", "d", "e", "f", "g", "h", "i", "j", "k", "l", "m",
      "n", "o", "p", "q", "r", "s", "t", "u", "v", "w", "x", "y", "z",
      "A", "B", "C", "D", "E", "F", "G", "H", "I", "J", "K", "L", "M",
      "N", "O", "P", "Q", "R", "S", "T", "U", "V", "W", "X", "Y", "Z",
      "0", "1", "2", "3", "4", "5", "6", "7", "8", "9", "_", ".", "-" }

\* "_".join(filename.split()) after every path separator became a space:
\* a run of whitespace between two words is one "_", the others are dropped
JoinWords(s) ==
    LET t == [i \in 1..Len(s) |-> IF s[i] = "/" THEN " " ELSE s[i]]
        u == [i \in 1..Len(t) |->
                IF ~IsSpace(t[i]) THEN t[i]
                ELSE IF /\ i > 1
                        /\ ~IsSpace(t[i - 1])
                        /\ \E j \in (i + 1)..Len(t) : ~IsSpace(t[j])
                     THEN "_"
                     ELSE ""]
    IN  SelectSeq(u, LAMBDA c : c # "")

\* str.strip("._")
StripDots(s) ==
    LET keep == {i \in 1..Len(s) : s[i] \notin {".", "_"}}
    IN  IF keep = {} THEN <<>> ELSE SubSeq(s, Min(keep), Max(keep))

\* werkzeug.utils.secure_filename
secure_filename(filename) ==
    StripDots(SelectSeq(JoinWords(filename), LAMBDA c : c \in SafeChars))

\* the id of an object that was never saved (self.id = None)
NoId == 0

\* file.filename of the uploads: no name, two names that secure_filename
\* maps to the same file, another name, a name of which nothing is left
UploadNames == { <<>>, <<"a",".","w","a","v">>, <<".",".","/","a",".","w","a","v">>, <<"b",".","m","p","3">>, <<".",".">> }

\* the status of a request that was not answered yet
NoStatus == 0

\* the request as it arrives: whether request.files holds 'audio_file', and
\* the file's name; nothing of the handler has run
process_audio(has_file, filename) ==
    [ handler       |-> "process_audio",
      pc            |-> "received",
      has_file      |-> has_file,
      filename      |-> filename,
      filepath      |-> <<>>,
      transcription |-> None,
      summary       |-> <<>>,
      action_items  |-> <<>>,
      meeting_id    |-> NoId,
      item_ids      |-> <<>>,
      status        |-> NoStatus,
      error         |-> None,
      trace         |-> <<>> ]

\* an entry of a request's log of the calls it made outside the handler
\* (file system, adapters, database) and whether the call failed
Ok(call) == <<[call |-> call, failed |-> FALSE]>>

Failed(call) == <<[call |-> call, failed |-> TRUE]>>

\* the handler returns: jsonify(...), status
Respond(self, status, error) ==
    [self EXCEPT !.pc = "done", !.status = status, !.error = error]

\* the step the handler is at is done and it goes on with the next
Goto(self, step, next) ==
    [self EXCEPT !.pc = next, !.trace = @ \o step]

\* lines 108-110: the step raised: return jsonify({'error': str(e)}), 500
Raise(self, step, error) ==
    Respond([self EXCEPT !.trace = @ \o step], 500, error)

(***************************************************************************)
(* The adapters: src/services/speech_to_text.py, src/services/llm_service.py *)
(***************************************************************************)

\* SpeechToTextService.transcribe_audio on the file at audio_path: file is
\* whose audio the file holds, None when there is no such file; heard is
\* whether Whisper made text of it. One call of self.model.transcribe.
transcribe_audio(file, heard) ==
    [ calls  |-> IF file = None \/ ~heard THEN Failed("model.transcribe")
                 ELSE Ok("model.transcribe"),
      raised |-> file = None \/ ~heard,
      error  |-> "Failed to transcribe audio",
      ret    |-> file ]

\* what the model backend does with one requests.post: it answers with a
\* text, it answers with a status other than 200, or it does not answer
\* within the timeout
Answer(text) == [kind |-> "answer", text |-> text]

Timeout == [kind |-> "timeout", text |-> <<>>]

BadStatus == [kind |-> "status", text |-> <<>>]

\* the replies the backend would give to a first and to a second post
Replies(texts) ==
    LET one == {Answer(t) : t \in texts} \cup {Timeout, BadStatus}
    IN  {<<a, b>> : a \in one, b \in one}

\* str(e) of the exception _call_ollama raises for a reply that is no answer
Unavailable(reply) ==
    IF reply.kind = "timeout" THEN <<"L","L","M"," ","s","e","r","v","i","c","e"," ","u","n","a","v","a","i","l","a","b","l","e",":"," ","R","e","a","d"," ","t","i","m","e","d"," ","o","u","t">>
    ELSE <<"L","L","M"," ","s","e","r","v","i","c","e"," ","u","n","a","v","a","i","l","a","b","l","e",":"," ","O","l","l","a","m","a"," ","A","P","I"," ","e","r","r","o","r">>

\* a second requests.post after a failed first one
_call_ollama_Retry(replies) ==
    IF replies[1].kind = "answer"
    THEN [ calls    |-> Ok("requests.post"),
           raised   |-> FALSE,
           error    |-> <<>>,
           response |-> strip(replies[1].text) ]
    ELSE [ calls    |-> Failed("requests.post") \o
                        (IF replies[2].kind = "answer" THEN Ok("requests.post")
                         ELSE Failed("requests.post")),
           raised   |-> replies[2].kind # "answer",
           error    |-> Unavailable(replies[2]),
           response |-> strip(replies[2].text) ]

\* LLMService._call_ollama: one requests.post; the stripped text of an
\* answer with status 200 is returned, anything else raises
_call_ollama(replies) ==
    [ calls    |-> IF replies[1].kind = "answer" THEN Ok("requests.post")
                   ELSE Failed("requests.post"),
      raised   |-> replies[1].kind # "answer",
      error    |-> Unavailable(replies[1]),
      response |-> strip(replies[1].text) ]

\* LLMService._format_summary
_format_summary(raw_summary) ==
    IF startswith(raw_summary, "#") THEN raw_summary
    ELSE <<"#"," ","M","e","e","t","i","n","g"," ","S","u","m","m","a","r","y","\n","\n">> \o raw_summary

\* f"Error generating summary: {str(e)}"
SummaryError(error) == <<"E","r","r","o","r"," ","g","e","n","e","r","a","t","i","n","g"," ","s","u","m","m","a","r","y",":"," ">> \o error

\* a failed model call raises out of generate_summary
generate_summary_Raises(replies) ==
    LET call == _call_ollama(replies)
    IN  [ calls  |-> call.calls,
          raised |-> call.raised,
          error  |-> "LLM service unavailable",
          ret    |-> _format_summary(call.response) ]

\* LLMService.generate_summary: the formatted answer, or the text of the
\* error when the call raised; it never raises
generate_summary(replies) ==
    LET call == _call_ollama(replies)
    IN  [ calls  |-> call.calls,
          raised |-> FALSE,
          error  |-> None,
          ret    |-> IF call.raised THEN SummaryError(call.error)
                     ELSE _format_summary(call.response) ]

\* answers of the model to the summary prompt
SummaryAnswers == { <<" ","T","h","e"," ","t","e","a","m"," ","a","g","r","e","e","d"," ","o","n"," ","t","h","e"," ","p","l","a","n",".","\n">> }

\* answers of the model to the action-item prompt: an array of two items
ActionItemAnswers ==
    { <<"[","{","\"","d","e","s","c","r","i","p","t","i","o","n","\"",":","\"","S","e","n","d"," ","r","e","p","o","r","t","\"",",","\"","a","s","s","i","g","n","e","e","\"",":","\"","B","o","b","\"","}",",","{","\"","d","e","s","c","r","i","p","t","i","o","n","\"",":","\"","C","a","l","l","\"","}","]">> }

\* self._parse_action_items(response) of each of these answers
ParsedAnswers == [a \in ActionItemAnswers \cup {<<>>} |-> _parse_action_items(a)]

\* LLMService.extract_action_items: the items parsed from the answer, or []
\* when the call or the parsing raised; it never raises
extract_action_items(replies) ==
    LET call   == _call_ollama(replies)
        parsed == ParsedAnswers[call.response]
    IN  [ calls  |-> call.calls,
          raised |-> FALSE,
          error  |-> None,
          ret    |-> IF call.raised \/ parsed.exc # "none" THEN <<>> ELSE parsed.ret ]

(***************************************************************************)
(* The models: src/models/meeting.py, src/models/action_item.py.  A save   *)
(* is one INSERT or UPDATE and its commit: a table, its AUTOINCREMENT      *)
(* counter and the time go in; the table and the counter after the save    *)
(* and the id returned come out.                                           *)
(***************************************************************************)

\* Meeting(title, date, attendees, transcription, summary, id=None)
Meeting(title, date, attendees, transcription, summary, id) ==
    [ id |-> id, title |-> title, date |-> date, attendees |-> attendees,
      transcription |-> transcription, summary |-> summary ]

\* the id returned is cursor.lastrowid as it was before the INSERT
Meeting_save_StaleId(self, table, seq, at) ==
    [ table |-> table @@ ((seq + 1) :> [ id            |-> seq + 1,
                                         title         |-> self.title,
                                         date          |-> self.date,
                                         attendees     |-> self.attendees,
                                         transcription |-> self.transcription,
                                         summary       |-> self.summary,
                                         created_at    |-> at ]),
      seq   |-> seq + 1,
      id    |-> seq ]

\* the INSERT OR REPLACE statement in place of the UPDATE: the row is written
\* anew, created_at included
Meeting_save_Replace(self, table, seq, at) ==
    IF self.id = NoId
    THEN [ table |-> table @@ ((seq + 1) :> [ id            |-> seq + 1,
                                              title         |-> self.title,
                                              date          |-> self.date,
                                              attendees     |-> self.attendees,
                                              transcription |-> self.transcription,
                                              summary       |-> self.summary,
                                              created_at    |-> at ]),
           seq   |-> seq + 1,
           id    |-> seq + 1 ]
    ELSE [ table |-> [i \in DOMAIN table |->
                        IF i = self.id
                        THEN [ id            |-> i,
                               title         |-> self.title,
                               date          |-> self.date,
                               attendees     |-> self.attendees,
                               transcription |-> self.transcription,
                               summary       |-> self.summary,
                               created_at    |-> at ]
                        ELSE table[i]],
           seq   |-> seq,
           id    |-> self.id ]

\* Meeting.save
Meeting_save(self, table, seq, at) ==
    IF self.id = NoId
    THEN LET id == seq + 1
         IN  [ table |-> table @@ (id :> [ id            |-> id,
                                           title         |-> self.title,
                                           date          |-> self.date,
                                           attendees     |-> self.attendees,
                                           transcription |-> self.transcription,
                                           summary       |-> self.summary,
                                           created_at    |-> at ]),
               seq   |-> id,
               id    |-> id ]
    ELSE [ table |-> [i \in DOMAIN table |->
                        IF i = self.id
                        THEN [table[i] EXCEPT !.title = self.title,
                                              !.date = self.date,
                                              !.attendees = self.attendees,
                                              !.transcription = self.transcription,
                                              !.summary = self.summary]
                        ELSE table[i]],
           seq   |-> seq,
           id    |-> self.id ]

\* ActionItem(meeting_id, description, assignee, due_date, priority, id=None,
\* completed=False)
ActionItem(meeting_id, description, assignee, due_date, priority, id, completed) ==
    [ id |-> id, meeting_id |-> meeting_id, description |-> description,
      assignee |-> assignee, due_date |-> due_date, priority |-> priority,
      completed |-> completed ]

\* ActionItem.save
ActionItem_save(self, table, seq, at) ==
    IF self.id = NoId
    THEN LET id == seq + 1
         IN  [ table |-> table @@ (id :> [ id          |-> id,
                                           meeting_id  |-> self.meeting_id,
                                           description |-> self.description,
                                           assignee    |-> self.assignee,
                                           due_date    |-> self.due_date,
                                           priority    |-> self.priority,
                                           completed   |-> self.completed,
                                           created_at  |-> at ]),
               seq   |-> id,
               id    |-> id ]
    ELSE [ table |-> [i \in DOMAIN table |->
                        IF i = self.id
                        THEN [table[i] EXCEPT !.description = self.description,
                                              !.assignee = self.assignee,
                                              !.due_date = self.due_date,
                                              !.priority = self.priority,
                                              !.completed = self.completed]
                        ELSE table[i]],
           seq   |-> seq,
           id    |-> self.id ]

\* Meeting.get_by_id: the row as a dict, or None
Meeting_get_by_id(meeting_id) ==
    IF meeting_id \in DOMAIN meetings THEN meetings[meeting_id] ELSE None

\* ActionItem.get_by_id: the row as a dict, or None
ActionItem_get_by_id(item_id) ==
    IF item_id \in DOMAIN action_items THEN action_items[item_id] ELSE None

(***************************************************************************)
(* The steps of process_audio.  Each action is the code between two        *)
(* accesses to what the requests share (the upload folder, the tables):    *)
(* the threads of the server interleave between them.                      *)
(***************************************************************************)

\* lines 59-61: the fields of the form, request.form.get(...)
Form(r) == [meeting_title |-> "Untitled Meeting", meeting_date |-> "today", attendees |-> ""]

\* the handler after a call of an adapter: it answers 500 with str(e) when
\* the call raised, else the value returned is bound to one of its locals
After(self, call, local, next) ==
    IF call.raised
    THEN Raise(self, call.calls, call.error)
    ELSE Goto([self EXCEPT ![local] = call.ret], call.calls, next)

\* the check for an empty file name made on the sanitized name, after the
\* attempt to save the file
Upload_ChecksAfterSave(r) ==
    /\ req[r].handler = "process_audio"
    /\ req[r].pc = "received"
    /\ LET self == req[r]
           filename == secure_filename(self.filename)
       IN  IF ~self.has_file
           THEN /\ req' = [req EXCEPT ![r] = Respond(self, 400, "No audio file provided")]
                /\ UNCHANGED uploads
           ELSE IF filename = <<>>
           THEN /\ req' = [req EXCEPT ![r] =
                             Respond([self EXCEPT !.trace = Failed("file.save")],
                                     400, "No file selected")]
                /\ UNCHANGED uploads
           ELSE /\ uploads' = [uploads EXCEPT ![filename] = r]
                /\ req' = [req EXCEPT ![r] =
                             Goto([self EXCEPT !.filepath = filename],
                                  Ok("file.save"), "transcribe")]
    /\ UNCHANGED <<meetings, action_items, sqlite_sequence, now>>
    /\ UNCHANGED <<extractor, calendar, objects>>

\* lines 46-56: the two checks, secure_filename, file.save(filepath).
\* Saving under an empty name is saving on the folder itself, which raises.
Upload(r) ==
    /\ req[r].handler = "process_audio"
    /\ req[r].pc = "received"
    /\ LET self == req[r]
           filename == secure_filename(self.filename)
       IN  IF ~self.has_file
           THEN /\ req' = [req EXCEPT ![r] = Respond(self, 400, "No audio file provided")]
                /\ UNCHANGED uploads
           ELSE IF self.filename = <<>>
           THEN /\ req' = [req EXCEPT ![r] = Respond(self, 400, "No file selected")]
                /\ UNCHANGED uploads
           ELSE IF filename = <<>>
           THEN /\ req' = [req EXCEPT ![r] = Raise(self, Failed("file.save"), "IsADirectoryError")]
                /\ UNCHANGED uploads
           ELSE /\ uploads' = [uploads EXCEPT ![filename] = r]
                /\ req' = [req EXCEPT ![r] =
                             Goto([self EXCEPT !.filepath = filename],
                                  Ok("file.save"), "transcribe")]
    /\ UNCHANGED <<meetings, action_items, sqlite_sequence, now>>
    /\ UNCHANGED <<extractor, calendar, objects>>

\* line 68: speech_service.transcribe_audio(filepath)
Transcribe(r) ==
    /\ req[r].handler = "process_audio"
    /\ req[r].pc = "transcribe"
    /\ \E heard \in BOOLEAN :
        req' = [req EXCEPT ![r] =
                  After(req[r], transcribe_audio(uploads[req[r].filepath], heard),
                        "transcription", "summarize")]
    /\ UNCHANGED <<uploads, meetings, action_items, sqlite_sequence, now>>
    /\ UNCHANGED <<extractor, calendar, objects>>

\* line 72: llm_service.generate_summary(transcription)
Summarize(r) ==
    /\ req[r].handler = "process_audio"
    /\ req[r].pc = "summarize"
    /\ \E replies \in Replies(SummaryAnswers) :
        req' = [req EXCEPT ![r] =
                  After(req[r], generate_summary(replies), "summary", "extract")]
    /\ UNCHANGED <<uploads, meetings, action_items, sqlite_sequence, now>>
    /\ UNCHANGED <<extractor, calendar, objects>>

\* line 73: llm_service.extract_action_items(transcription)
Extract(r) ==
    /\ req[r].handler = "process_audio"
    /\ req[r].pc = "extract"
    /\ \E replies \in Replies(ActionItemAnswers) :
        req' = [req EXCEPT ![r] =
                  After(req[r], extract_action_items(replies), "action_items",
                        "save_meeting")]
    /\ UNCHANGED <<uploads, meetings, action_items, sqlite_sequence, now>>
    /\ UNCHANGED <<extractor, calendar, objects>>

\* lines 76-84: Meeting(...) and meeting.save(); committed says whether the
\* database took the INSERT
SaveMeeting(r) ==
    /\ req[r].handler = "process_audio"
    /\ req[r].pc = "save_meeting"
    /\ \E committed \in BOOLEAN :
        LET self == req[r]
            meeting == Meeting(Form(r).meeting_title, Form(r).meeting_date,
                               Form(r).attendees, self.transcription,
                               self.summary, NoId)
            saved == Meeting_save(meeting, meetings, sqlite_sequence.meetings, now)
        IN  IF committed
            THEN /\ meetings' = saved.table
                 /\ sqlite_sequence' = [sqlite_sequence EXCEPT !.meetings = saved.seq]
                 /\ now' = now + 1
                 /\ req' = [req EXCEPT ![r] =
                              Goto([self EXCEPT !.meeting_id = saved.id],
                                   Ok("meeting.save"),
                                   IF self.action_items = <<>> THEN "remove"
                                   ELSE "save_items")]
            ELSE /\ req' = [req EXCEPT ![r] =
                              Raise(self, Failed("meeting.save"), "sqlite3.Error")]
                 /\ UNCHANGED <<meetings, sqlite_sequence, now>>
    /\ UNCHANGED <<uploads, action_items>>
    /\ UNCHANGED <<extractor, calendar, objects>>

\* the rows of the request are deleted when saving an item fails
SaveActionItem_RollsBack(r) ==
    /\ req[r].handler = "process_audio"
    /\ req[r].pc = "save_items"
    /\ \E committed \in BOOLEAN :
        LET self == req[r]
            k == Len(self.item_ids) + 1
            item == self.action_items[k]
            action_item == ActionItem(self.meeting_id, item.description, item.assignee,
                                      item.due_date, item.priority, NoId, FALSE)
            saved == ActionItem_save(action_item, action_items,
                                     sqlite_sequence.action_items, now)
            mine == {self.item_ids[i] : i \in 1..Len(self.item_ids)}
        IN  IF committed
            THEN /\ action_items' = saved.table
                 /\ sqlite_sequence' = [sqlite_sequence EXCEPT !.action_items = saved.seq]
                 /\ now' = now + 1
                 /\ req' = [req EXCEPT ![r] =
                              Goto([self EXCEPT !.item_ids = Append(@, saved.id)],
                                   Ok("action_item.save"),
                                   IF k = Len(self.action_items) THEN "remove"
                                   ELSE "save_items")]
                 /\ UNCHANGED meetings
            ELSE /\ req' = [req EXCEPT ![r] =
                              Raise(self, Failed("action_item.save"), "sqlite3.Error")]
                 /\ meetings' = [i \in DOMAIN meetings \ {self.meeting_id} |-> meetings[i]]
                 /\ action_items' = [i \in DOMAIN action_items \ mine |-> action_items[i]]
                 /\ UNCHANGED <<sqlite_sequence, now>>
    /\ UNCHANGED uploads
    /\ UNCHANGED <<extractor, calendar, objects>>

\* lines 87-95: one turn of the loop: ActionItem(...) of the next item and
\* action_item.save()
SaveActionItem(r) ==
    /\ req[r].handler = "process_audio"
    /\ req[r].pc = "save_items"
    /\ \E committed \in BOOLEAN :
        LET self == req[r]
            k == Len(self.item_ids) + 1
            item == self.action_items[k]
            action_item == ActionItem(self.meeting_id, item.description, item.assignee,
                                      item.due_date, item.priority, NoId, FALSE)
            saved == ActionItem_save(action_item, action_items,
                                     sqlite_sequence.action_items, now)
        IN  IF committed
            THEN /\ action_items' = saved.table
                 /\ sqlite_sequence' = [sqlite_sequence EXCEPT !.action_items = saved.seq]
                 /\ now' = now + 1
                 /\ req' = [req EXCEPT ![r] =
                              Goto([self EXCEPT !.item_ids = Append(@, saved.id)],
                                   Ok("action_item.save"),
                                   IF k = Len(self.action_items) THEN "remove"
                                   ELSE "save_items")]
            ELSE /\ req' = [req EXCEPT ![r] =
                              Raise(self, Failed("action_item.save"), "sqlite3.Error")]
                 /\ UNCHANGED <<action_items, sqlite_sequence, now>>
    /\ UNCHANGED <<uploads, meetings>>
    /\ UNCHANGED <<extractor, calendar, objects>>

\* lines 98-106: os.remove(filepath), which raises when no file is there,
\* and the answer
Remove(r) ==
    /\ req[r].handler = "process_audio"
    /\ req[r].pc = "remove"
    /\ LET self == req[r]
       IN  IF uploads[self.filepath] = None
           THEN /\ req' = [req EXCEPT ![r] =
                             Raise(self, Failed("os.remove"), "FileNotFoundError")]
                /\ UNCHANGED uploads
           ELSE /\ uploads' = [uploads EXCEPT ![self.filepath] = None]
                /\ req' = [req EXCEPT ![r] =
                             Respond([self EXCEPT !.trace = @ \o Ok("os.remove")],
                                     200, None)]
    /\ UNCHANGED <<meetings, action_items, sqlite_sequence, now>>
    /\ UNCHANGED <<extractor, calendar, objects>>

(***************************************************************************)
(* GET /meeting/<id> and GET /export/<id>/<format> (main.py:112-144).      *)
(* Both read the tables and answer; neither writes.                        *)
(***************************************************************************)

\* the ids asked for: the id of the first Meeting saved, and one after it
MeetingIds == {1, 2}

\* the <format> of the URL
Formats == {"pdf", "txt", "docx", "PDF"}

\* the request as it arrives
view_meeting(meeting_id) ==
    [ handler    |-> "view_meeting",
      pc         |-> "received",
      meeting_id |-> meeting_id,
      found      |-> FALSE,
      status     |-> NoStatus,
      body       |-> None,
      flash      |-> None,
      trace      |-> <<>> ]

\* render_template('results.html', meeting=meeting, action_items=action_items):
\* the template is made for a Meeting and raises when it is given None
render_results(found) ==
    [raised |-> ~found, ret |-> "results.html"]

\* view_meeting without its except clause: the error leaves the handler and
\* Flask answers 500
view_meeting_NoExcept(self, found) ==
    IF render_results(found).raised
    THEN [self EXCEPT !.pc = "done", !.found = found, !.status = 500]
    ELSE [self EXCEPT !.pc = "done", !.found = found, !.status = 200,
                      !.body = render_results(found).ret]

\* view_meeting, lines 115-124: found is whether Meeting.get_by_id returned a
\* row; any exception flashes 'Error loading meeting' and redirects to index
view_meeting_answer(self, found) ==
    IF render_results(found).raised
    THEN [self EXCEPT !.pc = "done", !.found = found, !.status = 302,
                      !.body = "index", !.flash = "Error loading meeting"]
    ELSE [self EXCEPT !.pc = "done", !.found = found, !.status = 200,
                      !.body = render_results(found).ret]

ViewMeeting(r) ==
    /\ req[r].handler = "view_meeting"
    /\ req[r].pc = "received"
    /\ req' = [req EXCEPT ![r] =
                 view_meeting_answer(req[r], req[r].meeting_id \in DOMAIN meetings)]
    /\ UNCHANGED <<uploads, meetings, action_items, sqlite_sequence, now>>
    /\ UNCHANGED <<extractor, calendar, objects>>

\* the request as it arrives
export_meeting(meeting_id, format) ==
    [ handler    |-> "export_meeting",
      pc         |-> "received",
      meeting_id |-> meeting_id,
      format     |-> format,
      found      |-> FALSE,
      status     |-> NoStatus,
      body       |-> None,
      error      |-> None,
      trace      |-> <<>> ]

\* FileService.export_to_pdf: meeting.get raises on None; built is whether
\* reportlab built the document
export_to_pdf(found, built) ==
    [raised |-> ~found \/ ~built, error |-> "Failed to export PDF", ret |-> "pdf_path"]

\* FileService.export_to_text: meeting.get raises on None
export_to_text(found) ==
    [raised |-> ~found, error |-> "Failed to export text", ret |-> "txt_content"]

\* the format is looked at before the Meeting is looked up, and an id
\* without a Meeting answers 404
export_meeting_ChecksFirst(self, found, built) ==
    IF self.format \notin {"pdf", "txt"}
    THEN [self EXCEPT !.pc = "done", !.found = found, !.status = 400,
                      !.error = "Unsupported format"]
    ELSE IF ~found
    THEN [self EXCEPT !.pc = "done", !.found = found, !.status = 404,
                      !.error = "Meeting not found"]
    ELSE [self EXCEPT !.pc = "done", !.found = found, !.status = 200,
                      !.body = IF self.format = "pdf" THEN "attachment" ELSE "text/plain"]

\* export_meeting, lines 129-144
export_meeting_answer(self, found, built) ==
    IF self.format = "pdf"
    THEN IF export_to_pdf(found, built).raised
         THEN [self EXCEPT !.pc = "done", !.found = found, !.status = 500,
                           !.error = export_to_pdf(found, built).error]
         ELSE [self EXCEPT !.pc = "done", !.found = found, !.status = 200,
                           !.body = "attachment"]
    ELSE IF self.format = "txt"
    THEN IF export_to_text(found).raised
         THEN [self EXCEPT !.pc = "done", !.found = found, !.status = 500,
                           !.error = export_to_text(found).error]
         ELSE [self EXCEPT !.pc = "done", !.found = found, !.status = 200,
                           !.body = "text/plain"]
    ELSE [self EXCEPT !.pc = "done", !.found = found, !.status = 400,
                      !.error = "Unsupported format"]

ExportMeeting(r) ==
    /\ req[r].handler = "export_meeting"
    /\ req[r].pc = "received"
    /\ \E built \in BOOLEAN :
        req' = [req EXCEPT ![r] =
                  export_meeting_answer(req[r], req[r].meeting_id \in DOMAIN meetings,
                                        built)]
    /\ UNCHANGED <<uploads, meetings, action_items, sqlite_sequence, now>>
    /\ UNCHANGED <<extractor, calendar, objects>>

(***************************************************************************)
(* POST /calendar_integration (main.py:146-167) and                        *)
(* CalendarService.create_event (src/services/calendar_service.py).        *)
(***************************************************************************)

\* the longest action_items list of a request
MaxSelected == 2

\* the ids asked for: those of the first two ActionItems saved
ItemIds == {1, 2}

\* the request as it arrives: action_items is the list of ids of its body
calendar_integration(selected_items) ==
    [ handler      |-> "calendar_integration",
      pc           |-> "received",
      action_items |-> selected_items,
      results      |-> <<>>,
      status       |-> NoStatus,
      body         |-> <<>>,
      error        |-> None,
      trace        |-> <<>> ]

\* what CalendarService.authenticate can come to: the service is built, there
\* are no credentials (it returns False), or the OAuth flow raises
AuthOutcomes == {"built", "no credentials", "raises"}

\* create_event inserts again after a failed insert
create_event_Retry(found, authenticated, auth, inserted) ==
    IF ~authenticated /\ auth # "built"
    THEN [ calls    |-> Failed("authenticate"),
           raised   |-> TRUE,
           error    |-> "Calendar authentication failed",
           service  |-> FALSE,
           inserted |-> FALSE ]
    ELSE [ calls    |-> (IF authenticated THEN <<>> ELSE Ok("authenticate")) \o
                        (IF ~found THEN Failed("action_item.get")
                         ELSE IF inserted THEN Ok("events.insert")
                         ELSE Failed("events.insert") \o Failed("events.insert")),
           raised   |-> ~found \/ ~inserted,
           error    |-> IF ~found THEN "Calendar integration failed"
                        ELSE "Failed to create calendar event",
           service  |-> TRUE,
           inserted |-> found /\ inserted ]

\* CalendarService.create_event, lines 47-108.  found: action_item is a row,
\* not None; authenticated: self.service is set; auth: what authenticate()
\* comes to if it is called; inserted: whether events().insert().execute()
\* succeeds.  On None the first action_item.get (line 61) raises and nothing
\* is inserted.  service is self.service afterwards.
create_event(found, authenticated, auth, inserted) ==
    IF ~authenticated /\ auth # "built"
    THEN [ calls    |-> Failed("authenticate"),
           raised   |-> TRUE,
           error    |-> "Calendar authentication failed",
           service  |-> FALSE,
           inserted |-> FALSE ]
    ELSE [ calls    |-> (IF authenticated THEN <<>> ELSE Ok("authenticate")) \o
                        (IF ~found THEN Failed("action_item.get")
                         ELSE IF inserted THEN Ok("events.insert")
                         ELSE Failed("events.insert")),
           raised   |-> ~found \/ ~inserted,
           error    |-> IF ~found THEN "Calendar integration failed"
                        ELSE "Failed to create calendar event",
           service  |-> TRUE,
           inserted |-> found /\ inserted ]

\* the results gathered so far are returned with the error
calendar_turn_PartialResults(self, item_id, event_id, created) ==
    IF created.raised
    THEN [self EXCEPT !.pc = "done", !.status = 500, !.error = created.error,
                      !.body = self.results, !.trace = @ \o created.calls]
    ELSE [self EXCEPT !.pc = "loop", !.trace = @ \o created.calls,
                      !.results = Append(@, [ item_id  |-> item_id,
                                              event_id |-> event_id,
                                              status   |-> "success" ])]

\* one turn of the loop of lines 155-162 for item_id, and the except clause
\* of lines 166-167: created is what create_event came to, event_id the id
\* of the event if one was created
calendar_turn(self, item_id, event_id, created) ==
    IF created.raised
    THEN [self EXCEPT !.pc = "done", !.status = 500, !.error = created.error,
                      !.trace = @ \o created.calls]
    ELSE [self EXCEPT !.pc = "loop", !.trace = @ \o created.calls,
                      !.results = Append(@, [ item_id  |-> item_id,
                                              event_id |-> event_id,
                                              status   |-> "success" ])]

\* the events of the results gathered are deleted from the calendar when the
\* creation of a later one fails
CreateEvent_Compensates(r) ==
    /\ req[r].handler = "calendar_integration"
    /\ req[r].pc \in {"received", "loop"}
    /\ Len(req[r].results) < Len(req[r].action_items)
    /\ \E auth \in AuthOutcomes, inserted \in BOOLEAN :
        LET item_id == req[r].action_items[Len(req[r].results) + 1]
            created == create_event(item_id \in DOMAIN action_items, service,
                                    auth, inserted)
            mine == {req[r].results[j].event_id : j \in 1..Len(req[r].results)}
            others(e) == e.id \notin mine
        IN  /\ req' = [req EXCEPT ![r] =
                         calendar_turn(req[r], item_id, Len(events) + 1, created)]
            /\ service' = created.service
            /\ events' = IF created.inserted
                         THEN Append(events, [id |-> Len(events) + 1, item_id |-> item_id])
                         ELSE IF created.raised THEN SelectSeq(events, others)
                         ELSE events
    /\ UNCHANGED <<uploads, meetings, action_items, sqlite_sequence, now>>
    /\ UNCHANGED <<extractor, objects>>

\* lines 156-162: the lookup of the next id of the list, and create_event
CreateEvent(r) ==
    /\ req[r].handler = "calendar_integration"
    /\ req[r].pc \in {"received", "loop"}
    /\ Len(req[r].results) < Len(req[r].action_items)
    /\ \E auth \in AuthOutcomes, inserted \in BOOLEAN :
        LET item_id == req[r].action_items[Len(req[r].results) + 1]
            created == create_event(item_id \in DOMAIN action_items, service,
                                    auth, inserted)
        IN  /\ req' = [req EXCEPT ![r] =
                         calendar_turn(req[r], item_id, Len(events) + 1, created)]
            /\ service' = created.service
            /\ events' = IF created.inserted
                         THEN Append(events, [id |-> Len(events) + 1, item_id |-> item_id])
                         ELSE events
    /\ UNCHANGED <<uploads, meetings, action_items, sqlite_sequence, now>>
    /\ UNCHANGED <<extractor, objects>>

\* line 164: the loop is over: return jsonify({'success': True, 'results': results})
CalendarAnswer(r) ==
    /\ req[r].handler = "calendar_integration"
    /\ req[r].pc \in {"received", "loop"}
    /\ Len(req[r].results) = Len(req[r].action_items)
    /\ req' = [req EXCEPT ![r] =
                 [req[r] EXCEPT !.pc = "done", !.status = 200, !.body = req[r].results]]
    /\ UNCHANGED <<uploads, meetings, action_items, sqlite_sequence, now>>
    /\ UNCHANGED <<extractor, calendar, objects>>

(***************************************************************************)
(* The server: the requests that arrive are served at the same time, the   *)
(* steps of their handlers interleaved.                                    *)
(***************************************************************************)

\* uploads as they arrive: without the audio_file field, or with a file of
\* one of the names
Uploads ==
    {process_audio(FALSE, <<>>)} \cup {process_audio(TRUE, n) : n \in UploadNames}

Views == {view_meeting(id) : id \in MeetingIds}

Exports == {export_meeting(id, f) : id \in MeetingIds, f \in Formats}

\* the lists of at most MaxSelected ids
Selections == UNION { [1..n -> ItemIds] : n \in 0..MaxSelected }

CalendarRequests == {calendar_integration(s) : s \in Selections}

Arrivals == Uploads \cup Views \cup Exports \cup CalendarRequests

ServerInit ==
    /\ response = <<>>
    /\ pc = "off"
    /\ out = NotRun
    /\ again = NotRun
    /\ uploads = [n \in StoredNames |-> None]
    /\ meetings = <<>>
    /\ action_items = <<>>
    /\ sqlite_sequence = [meetings |-> 0, action_items |-> 0]
    /\ now = 0
    /\ service = FALSE
    /\ events = <<>>
    /\ objects = [meetings |-> NoObject, action_items |-> NoObject]
    /\ req \in [Requests -> Arrivals]

ServerNext ==
    \E r \in Requests :
        \/ Upload(r)
        \/ Transcribe(r)
        \/ Summarize(r)
        \/ Extract(r)
        \/ SaveMeeting(r)
        \/ SaveActionItem(r)
        \/ Remove(r)
        \/ ViewMeeting(r)
        \/ ExportMeeting(r)
        \/ CreateEvent(r)
        \/ CalendarAnswer(r)

ServerSpec == ServerInit /\ [][ServerNext]_vars


(***************************************************************************)
(* The two model classes on their own (src/models): save() called on       *)
(* objects built by a caller, new ones (id None) and ones whose id is set. *)
(***************************************************************************)

\* rows a table holds at most
MaxRows == 2

\* readings of the clock
MaxClock == 4

\* the texts of a summary: as first written, and rewritten
Texts == {"x", "y"}

\* ids an object can carry: None, a stored row's or an absent one's
ObjectIds == {NoId} \cup (1..MaxRows)

\* Meeting objects a caller can build
Meetings ==
    { Meeting("x", "x", "x", "x", summary, id) :
        summary \in Texts, id \in ObjectIds }

\* ActionItem objects a caller can build
ActionItems ==
    { ActionItem(meeting_id, "x", "x", "x", "Medium", id, completed) :
        meeting_id \in 1..MaxRows, id \in ObjectIds, completed \in BOOLEAN }

StoreInit ==
    /\ response = <<>>
    /\ pc = "off"
    /\ out = NotRun
    /\ again = NotRun
    /\ ServerIdle

\* meeting.save() of src/models/meeting.py
SaveMeetingObject ==
    /\ now < MaxClock
    /\ \E self \in Meetings :
        /\ self.id = NoId => Cardinality(DOMAIN meetings) < MaxRows
        /\ meetings' = Meeting_save(self, meetings, sqlite_sequence.meetings, now).table
        /\ sqlite_sequence' =
              [sqlite_sequence EXCEPT !.meetings =
                 Meeting_save(self, meetings, sqlite_sequence.meetings, now).seq]
        /\ objects' =
              [objects EXCEPT !.meetings =
                 [object |-> self,
                  id |-> Meeting_save(self, meetings, sqlite_sequence.meetings, now).id]]
    /\ now' = now + 1
    /\ UNCHANGED <<uploads, action_items, req>>
    /\ UNCHANGED <<extractor, calendar>>

\* action_item.save() of src/models/action_item.py
SaveActionItemObject ==
    /\ now < MaxClock
    /\ \E self \in ActionItems :
        /\ self.id = NoId => Cardinality(DOMAIN action_items) < MaxRows
        /\ action_items' =
              ActionItem_save(self, action_items, sqlite_sequence.action_items, now).table
        /\ sqlite_sequence' =
              [sqlite_sequence EXCEPT !.action_items =
                 ActionItem_save(self, action_items, sqlite_sequence.action_items, now).seq]
        /\ objects' =
              [objects EXCEPT !.action_items =
                 [object |-> self,
                  id |-> ActionItem_save(self, action_items,
                                         sqlite_sequence.action_items, now).id]]
    /\ now' = now + 1
    /\ UNCHANGED <<uploads, meetings, req>>
    /\ UNCHANGED <<extractor, calendar>>

StoreNext ==
    \/ SaveMeetingObject
    \/ SaveActionItemObject

StoreSpec == StoreInit /\ [][StoreNext]_vars

(***************************************************************************)
(* Properties of the extractor.                                            *)
(***************************************************************************)

\* the input holds a '[' that is followed somewhere later by a ']'
HasBracketPair(text) ==
    \E i \in 1..Len(text) :
        text[i] = "[" /\ \E j \in (i + 1)..Len(text) : text[j] = "]"

\* the text from the first '[' of the input to its last ']'
BracketRegion(text) ==
    SubSeq(text, Min({i \in 1..Len(text) : text[i] = "["}),
                 Max({j \in 1..Len(text) : text[j] = "]"}))

\* the bracketed region of the input as a JSON document: [ok |-> FALSE] when
\* it is malformed, else val.a is the decoded list
Loaded(text) == json_loads(BracketRegion(text))

FieldKeys == {KDescription, KAssignee, KDueDate, KPriority}

\* a decoded entry that holds a non-string under one of the four keys
HasNonStringField(entry) ==
    /\ entry.t = "dict"
    /\ \E k \in FieldKeys \cap DOMAIN entry.d : entry.d[k].t # "str"

Str == Seq(STRING)

\* C1: _parse_action_items never raises: for every input, whatever its content,
\* it returns a (possibly empty) sequence of records.
C1_NeverRaises ==
    /\ out.exc = "none"
    /\ again.exc = "none"
    /\ out.ret \in Seq([description : Str, assignee : Str, due_date : Str, priority : Str])

\* a run on an array whose entry holds a non-string field value has returned
C1_Witness ==
    /\ pc = "parsed"
    /\ HasBracketPair(response)
    /\ LET loaded == Loaded(response)
       IN  /\ loaded.ok
           /\ \E k \in 1..Len(loaded.val.a) : HasNonStringField(loaded.val.a[k])
    /\ out.exc = "none"

\* C2 as stated: whenever the structured path does not complete, the output is
\* what the line-based fallback returns for the same input.
C2_AnyFailureFallsBack ==
    pc = "parsed" /\ out.via # "structured" => out.ret = _parse_text_action_items(response)

\* C2 amended: a JSON syntax error in the bracketed region triggers the fallback
\* and the output is the fallback's output for the same input; a failure while
\* trimming a non-string field of a decoded entry that has a description
\* returns the empty sequence instead.
C2_SyntaxErrorFallsBack ==
    pc = "parsed" /\ HasBracketPair(response) =>
      LET loaded == Loaded(response)
      IN  IF ~loaded.ok
          THEN out.ret = _parse_text_action_items(response)
          ELSE (\E k \in 1..Len(loaded.val.a) :
                   /\ HasNonStringField(loaded.val.a[k])
                   /\ KDescription \in DOMAIN loaded.val.a[k].d)
               => out.ret = <<>>

\* a trimming failure happened on an input for which the fallback finds an item
C2_Witness ==
    /\ pc = "parsed"
    /\ out.via = "empty"
    /\ _parse_text_action_items(response) # <<>>

\* a decoded entry that is an object with a string description that is
\* non-empty after trimming
HasDescription(entry) ==
    /\ entry.t = "dict"
    /\ KDescription \in DOMAIN entry.d
    /\ entry.d[KDescription].t = "str"
    /\ strip(entry.d[KDescription].s) # <<>>

\* the trimmed value of a key of a decoded object, or the default when missing
Trimmed(entry, key, default) ==
    IF key \in DOMAIN entry.d THEN strip(entry.d[key].s) ELSE default

\* the record expected for a decoded object
ExpectedRecord(entry) ==
    [description |-> Trimmed(entry, KDescription, <<>>),
     assignee    |-> Trimmed(entry, KAssignee, Unassigned),
     due_date    |-> Trimmed(entry, KDueDate, NoDueDate),
     priority    |-> Trimmed(entry, KPriority, Medium)]

\* items has one record per entry of the decoded list, in the same order, with
\* the description of the entry and the defaults for the fields it lacks
OneRecordPerEntry(items, list) ==
    /\ Len(items) = Len(list)
    /\ \A k \in 1..Len(list) :
          /\ items[k].description = strip(list[k].d[KDescription].s)
          /\ KAssignee \notin DOMAIN list[k].d => items[k].assignee = Unassigned
          /\ KDueDate \notin DOMAIN list[k].d => items[k].due_date = NoDueDate
          /\ KPriority \notin DOMAIN list[k].d => items[k].priority = Medium

\* C3 as stated: whenever the input contains a well-formed JSON array of objects
\* with non-empty description fields, the output has one record per object, in
\* array order, with the defaults for missing fields.
C3_ContainedArrayExtracted ==
    pc = "parsed" =>
      \A i \in {m \in 1..Len(response) : response[m] = "["} :
        \A j \in {m \in (i + 1)..Len(response) : response[m] = "]"} :
          LET loaded == json_loads(SubSeq(response, i, j))
          IN  ( /\ loaded.ok
                /\ loaded.val.a # <<>>
                /\ \A k \in 1..Len(loaded.val.a) : HasDescription(loaded.val.a[k]) )
              => OneRecordPerEntry(out.ret, loaded.val.a)

\* C3 amended: when the text from the first '[' to the last ']' of the input is
\* a well-formed JSON array of objects in which every description, assignee,
\* due_date and priority present is a string, the output has one record per
\* object whose description is non-empty after trimming, in array order, with
\* the fields trimmed and the defaults for missing fields.
C3_RegionArrayExtracted ==
    pc = "parsed" /\ HasBracketPair(response) =>
      LET loaded == Loaded(response)
      IN  ( /\ loaded.ok
            /\ \A k \in 1..Len(loaded.val.a) :
                  loaded.val.a[k].t = "dict" /\ ~HasNonStringField(loaded.val.a[k]) )
          => LET kept == SelectSeq(loaded.val.a, HasDescription)
             IN  /\ Len(out.ret) = Len(kept)
                 /\ \A k \in 1..Len(kept) : out.ret[k] = ExpectedRecord(kept[k])

\* an array inside prose gave two records and lost an entry with a blank description
C3_Witness ==
    /\ pc = "parsed"
    /\ HasBracketPair(response)
    /\ response[1] # "["
    /\ LET loaded == Loaded(response)
       IN  /\ loaded.ok
           /\ \A k \in 1..Len(loaded.val.a) :
                 loaded.val.a[k].t = "dict" /\ ~HasNonStringField(loaded.val.a[k])
           /\ Len(loaded.val.a) > Len(out.ret)
    /\ Len(out.ret) >= 2
    /\ out.ret[1].due_date = NoDueDate

\* C4: when the bracketed array is malformed or there is no bracket pair, the
\* output is the output of the line-based fallback on that input, and it has
\* at most 10 records.
C4_MalformedOrAbsentFallsBack ==
    pc = "parsed" =>
      ( (IF HasBracketPair(response) THEN ~Loaded(response).ok ELSE TRUE)
        => /\ out.ret = _parse_text_action_items(response)
           /\ Len(out.ret) <= 10 )

\* a malformed array in an input with more than 10 item lines
C4_Witness ==
    /\ pc = "parsed"
    /\ HasBracketPair(response)
    /\ ~Loaded(response).ok
    /\ Len(out.ret) = 10

\* C5: in every record returned, on the structured path and on the fallback
\* path alike, the description is non-empty after trimming whitespace.
C5_DescriptionsNonEmpty ==
    /\ \A k \in 1..Len(out.ret) : strip(out.ret[k].description) # <<>>
    /\ \A k \in 1..Len(again.ret) : strip(again.ret[k].description) # <<>>

\* the structured path returned records and dropped an entry whose description
\* is whitespace only
C5_Witness ==
    /\ pc = "parsed"
    /\ out.via = "structured"
    /\ out.ret # <<>>
    /\ LET list == Loaded(response).val.a
       IN  \E k \in 1..Len(list) :
              /\ list[k].t = "dict"
              /\ KDescription \in DOMAIN list[k].d
              /\ list[k].d[KDescription].t = "str"
              /\ list[k].d[KDescription].s # <<>>
              /\ strip(list[k].d[KDescription].s) = <<>>

\* C6: every record returned has exactly the four fields description, assignee,
\* due_date and priority; on the fallback path the last three are the defaults.
C6_FourFieldsFallbackDefaults ==
    \A k \in 1..Len(out.ret) :
       /\ DOMAIN out.ret[k] = {"description", "assignee", "due_date", "priority"}
       /\ out.via = "fallback" =>
             /\ out.ret[k].assignee = Unassigned
             /\ out.ret[k].due_date = NoDueDate
             /\ out.ret[k].priority = Medium

\* the structured path returned a record for an object that has an extra key
C6_Witness ==
    /\ pc = "parsed"
    /\ out.via = "structured"
    /\ out.ret # <<>>
    /\ LET list == Loaded(response).val.a
       IN  \E k \in 1..Len(list) :
              HasDescription(list[k]) /\ <<"e","x","t","r","a">> \in DOMAIN list[k].d

\* the lines of the text, each stripped
StrippedLines(text) ==
    LET ls == split(text) IN [k \in 1..Len(ls) |-> strip(ls[k])]

\* the qualification rule: non-empty after trimming, and bullet-prefixed or
\* holding "action" in its lowercase form
BulletOrAction(line) ==
    /\ line # <<>>
    /\ \/ line[1] \in {"-", "*"}
       \/ \E i \in 1..(Len(line) - 5) : SubSeq(lower(line), i, i + 5) = <<"a","c","t","i","o","n">>

\* the members of a set of line numbers that have fewer than n members before them
FirstOf(S, n) == {k \in S : Cardinality({m \in S : m < k}) < n}

\* items holds one record for each line whose number is in S, in line order
RecordsOfLines(items, lines, S) ==
    /\ Len(items) = Cardinality(S)
    /\ \A i \in 1..Len(items) :
          items[i].description = re_sub_bullet(lines[Nth(S, i)])

\* C7 as stated: on the fallback path a record is emitted only for a line that
\* is among the first 10 qualifying lines, and every later qualifying line is
\* dropped.
C7_FirstTenQualifyingLines ==
    pc = "parsed" /\ out.via = "fallback" =>
      LET lines == StrippedLines(response)
          qualifying == {k \in 1..Len(lines) : BulletOrAction(lines[k])}
          emitting == {k \in FirstOf(qualifying, 10) : re_sub_bullet(lines[k]) # <<>>}
      IN  RecordsOfLines(out.ret, lines, emitting)

\* C7 amended: on the fallback path the records are those of the first 10
\* qualifying lines that still have text after their bullet is removed, in
\* input order; a qualifying line that is a bare bullet yields no record and
\* does not count towards the 10.
C7_FirstTenEmittingLines ==
    pc = "parsed" /\ out.via = "fallback" =>
      LET lines == StrippedLines(response)
          emitting == {k \in 1..Len(lines) :
                          BulletOrAction(lines[k]) /\ re_sub_bullet(lines[k]) # <<>>}
      IN  RecordsOfLines(out.ret, lines, FirstOf(emitting, 10))

\* the fallback ran on an input with a bare bullet and more than 10 item lines
C7_Witness ==
    /\ pc = "parsed"
    /\ out.via = "fallback"
    /\ Len(out.ret) = 10
    /\ LET lines == StrippedLines(response)
       IN  /\ Cardinality({k \in 1..Len(lines) :
                  BulletOrAction(lines[k]) /\ re_sub_bullet(lines[k]) # <<>>}) > 10
           /\ \E k \in 1..Len(lines) : lines[k] = <<"-">>

NoActionLine == <<"N","o"," ","a","c","t","i","o","n"," ","i","t","e","m","s"," ","t","h","i","s"," ","w","e","e","k",".">>

\* C8: on the fallback path a line qualifies whenever its lowercase form holds
\* "action", with or without a bullet: "No action items this week." yields one
\* record whose description is that line; a line that is neither
\* bullet-prefixed nor holds "action" yields no record.
C8_ActionLinesQualify ==
    pc = "parsed" =>
      /\ response = NoActionLine =>
            out.ret = << [description |-> NoActionLine, assignee |-> Unassigned,
                          due_date |-> NoDueDate, priority |-> Medium] >>
      /\ out.via = "fallback" =>
            LET lines == StrippedLines(response)
            IN  /\ \A i \in 1..Len(out.ret) :
                      \E k \in 1..Len(lines) :
                         /\ BulletOrAction(lines[k])
                         /\ out.ret[i].description = re_sub_bullet(lines[k])
                /\ Len(out.ret) < 10 =>
                      \A k \in 1..Len(lines) :
                         (lines[k] # <<>> /\ ~(lines[k][1] \in {"-", "*"})
                            /\ BulletOrAction(lines[k]))
                         => \E i \in 1..Len(out.ret) : out.ret[i].description = lines[k]

\* the extractor ran on "No action items this week." and returned one record
C8_Witness ==
    /\ pc = "parsed"
    /\ response = NoActionLine
    /\ Len(out.ret) = 1

\* C9 as stated: for every input handled by the fallback path, the second run,
\* on the descriptions of the first output, does not raise and returns a
\* sequence no longer than the first output, hence no longer than 10.
C9_RerunNoLonger ==
    pc = "reparsed" /\ out.via = "fallback" =>
      /\ again.exc = "none"
      /\ Len(again.ret) <= Len(out.ret)
      /\ Len(again.ret) <= 10

\* C9 amended: for every input handled by the fallback path, the second run
\* does not raise, and it returns a sequence no longer than the first output,
\* hence no longer than 10, unless the descriptions, one per line, hold a
\* bracketed region that is a well-formed JSON array.
C9_RerunNoLongerUnlessArray ==
    pc = "reparsed" /\ out.via = "fallback" =>
      /\ again.exc = "none"
      /\ LET text == DescriptionText(out.ret)
         IN  \/ HasBracketPair(text) /\ Loaded(text).ok
             \/ Len(again.ret) <= Len(out.ret) /\ Len(again.ret) <= 10

\* the second run, on a capped fallback output, returned a record
C9_Witness ==
    /\ pc = "reparsed"
    /\ out.via = "fallback"
    /\ Len(out.ret) = 10
    /\ again.via = "fallback"
    /\ Len(again.ret) >= 1

\* C10: the structured path is attempted exactly when the input holds a '['
\* followed somewhere later by a ']'; the text handed to the JSON parser runs
\* from the first '[' of the input to its last ']'; without such a pair the
\* fallback path is used.
C10_GreedyRegion ==
    pc = "parsed" =>
      IF HasBracketPair(response)
      THEN out.json_str = BracketRegion(response)
      ELSE /\ out.json_str = <<>>
           /\ out.via = "fallback"
           /\ out.ret = _parse_text_action_items(response)

\* the region handed to the parser spans several bracket pairs and a line break
C10_Witness ==
    /\ pc = "parsed"
    /\ Cardinality({i \in 1..Len(response) : response[i] = "]"}) >= 2
    /\ out.json_str = BracketRegion(response)
    /\ \E i \in 1..Len(out.json_str) : out.json_str[i] = "\n"


(***************************************************************************)
(* Properties of the web application.                                      *)
(***************************************************************************)

\* the POST /process_audio requests that were answered
Answered == {r \in Requests : req[r].handler = "process_audio" /\ req[r].pc = "done"}

\* the places in the log of r of the calls that failed
FailedCalls(r) == {i \in 1..Len(req[r].trace) : req[r].trace[i].failed}

\* the upload of r was refused: no audio_file field, or a file without a name
NoUpload(r) == ~req[r].has_file \/ req[r].filename = <<>>

CallNames(r) == [i \in 1..Len(req[r].trace) |-> req[r].trace[i].call]

\* the calls of a pipeline that saves n action items
PipelineCalls(n) ==
    <<"file.save", "model.transcribe", "requests.post", "requests.post", "meeting.save">>
    \o [k \in 1..n |-> "action_item.save"] \o <<"os.remove">>

\* the ids of the ActionItem rows that reference Meeting id
ItemsOfMeeting(id) == {i \in DOMAIN action_items : action_items[i].meeting_id = id}

\* C12: a successful POST /process_audio runs transcribe, summarize, extract,
\* persist in this order; it creates one Meeting row and then one ActionItem
\* row per extracted record; each of these rows references the Meeting the
\* request created, whose id is the meeting_id returned; no other row does.
C12_OneMeetingThenItsItems ==
    \A r \in Answered :
        LET self == req[r]
        IN  self.status = 200 =>
              /\ CallNames(r) = PipelineCalls(Len(self.action_items))
              /\ self.meeting_id \in DOMAIN meetings
              /\ meetings[self.meeting_id].transcription = self.transcription
              /\ \A q \in Answered \ {r} :
                    req[q].status = 200 => req[q].meeting_id # self.meeting_id
              /\ Len(self.item_ids) = Len(self.action_items)
              /\ \A k \in 1..Len(self.item_ids) :
                    /\ self.item_ids[k] \in DOMAIN action_items
                    /\ action_items[self.item_ids[k]].meeting_id = self.meeting_id
                    /\ action_items[self.item_ids[k]].description =
                           self.action_items[k].description
                    /\ \A j \in 1..(k - 1) : self.item_ids[j] < self.item_ids[k]
              /\ ItemsOfMeeting(self.meeting_id) =
                    {self.item_ids[k] : k \in 1..Len(self.item_ids)}

\* two requests succeeded, each with two action items, and their saves were
\* interleaved
C12_Witness ==
    \E r \in Answered, q \in Answered :
        /\ r # q
        /\ req[r].status = 200
        /\ req[q].status = 200
        /\ req[r].item_ids = <<1, 3>>
        /\ req[q].item_ids = <<2, 4>>

\* the requests of a handler that were answered
AnsweredBy(handler) == {r \in Requests : req[r].handler = handler /\ req[r].pc = "done"}

C14_ExportAnswers ==
    \A r \in AnsweredBy("export_meeting") :
        LET self == req[r]
        IN  /\ self.format \notin {"pdf", "txt"} => self.status = 400 /\ self.body = None
            /\ (self.format \in {"pdf", "txt"} /\ ~self.found) =>
                  self.status = 500 /\ self.body = None
            /\ (self.format = "txt" /\ self.found) =>
                  self.status = 200 /\ self.body = "text/plain"
            /\ (self.format = "pdf" /\ self.found) =>
                  \/ self.status = 200 /\ self.body = "attachment"
                  \/ self.status = 500 /\ self.body = None
            /\ self.status = 200 => self.found

\* an export in an unsupported format of a Meeting that exists was answered 400
C14_Witness ==
    \E r \in AnsweredBy("export_meeting") :
        /\ req[r].found
        /\ req[r].format = "docx"
        /\ req[r].status = 400

\* how many calls named call the log of r holds that did not fail
Succeeded(r, call) ==
    Cardinality({i \in 1..Len(req[r].trace) :
                    req[r].trace[i].call = call /\ ~req[r].trace[i].failed})

\* C15: POST /calendar_integration creates one calendar event per id of the
\* list, in list order, and on success returns one result {item_id, event_id,
\* status} per id in the same order; when the lookup or the creation fails for
\* an id, the answer is one top-level error without per-item results.
C15_OneEventPerIdOrError ==
    \A r \in AnsweredBy("calendar_integration") :
        LET self == req[r]
        IN  /\ self.status \in {200, 500}
            /\ self.status = 500 <=> FailedCalls(r) # {}
            /\ self.status = 500 => self.body = <<>> /\ self.error # None
            /\ self.status = 200 =>
                  /\ Len(self.body) = Len(self.action_items)
                  /\ Succeeded(r, "events.insert") = Len(self.action_items)
                  /\ \A k \in 1..Len(self.body) :
                        /\ self.body[k].item_id = self.action_items[k]
                        /\ self.body[k].status = "success"
                        /\ self.body[k].event_id \in 1..Len(events)
                        /\ events[self.body[k].event_id].item_id = self.action_items[k]
                        /\ \A j \in 1..(k - 1) :
                              self.body[j].event_id < self.body[k].event_id

\* a request for the second and then the first ActionItem was answered with
\* two results
C15_Witness ==
    \E r \in AnsweredBy("calendar_integration") :
        /\ req[r].action_items = <<2, 1>>
        /\ req[r].status = 200
        /\ Len(req[r].body) = 2

\* the steps of process_audio between file.save and os.remove: the upload of
\* the request is in the upload folder and the steps depend on it
HoldsUpload(r) ==
    /\ req[r].handler = "process_audio"
    /\ req[r].pc \in {"transcribe", "summarize", "extract", "save_meeting",
                      "save_items", "remove"}

\* C16: requests served at the same time are independent outside the data
\* store: whatever the interleaving of two POST /process_audio requests, also
\* of two uploads whose sanitized file names are equal, the file a request
\* saved stays its own until it removes it, and the text it transcribes is
\* that of its own audio.
C16_UploadsIndependent ==
    \A r \in Requests :
        /\ HoldsUpload(r) => uploads[req[r].filepath] = r
        /\ req[r].handler = "process_audio" => req[r].transcription \in {None, r}

\* C17: no adapter retries: within a request the transcription, each model
\* generation call and each calendar event insert is attempted at most once,
\* and a failed call, a model call that ran into its timeout included, is
\* not followed by a second attempt of it.  In the log of a process_audio
\* request the transcription is the second call and the posts of the summary
\* and of the action items the third and the fourth; a calendar request holds
\* one insert per result and at most one more, the failed one, which is last.
C17_NoRetry ==
    \A r \in Requests :
        LET self == req[r]
            at(call) == {i \in 1..Len(self.trace) : self.trace[i].call = call}
        IN  /\ self.handler = "process_audio" =>
                  /\ at("model.transcribe") \subseteq {2}
                  /\ at("requests.post") \subseteq {3, 4}
                  /\ \A i \in FailedCalls(r) :
                        self.trace[i].call # "requests.post" => i = Len(self.trace)
            /\ self.handler = "calendar_integration" =>
                  /\ Succeeded(r, "events.insert") = Len(self.results)
                  /\ Cardinality(at("authenticate")) <= 1
                  /\ \A i \in FailedCalls(r) : i = Len(self.trace)

\* the model call of the summary ran into its timeout and the request went on
\* with the one call of the action items; a calendar insert failed
C17_Witness ==
    /\ \E r \in Answered :
          /\ req[r].summary = SummaryError(Unavailable(Timeout))
          /\ Len(req[r].trace) > 4
          /\ req[r].trace[4].call = "requests.post"
          /\ req[r].trace[5].call = "meeting.save"
    /\ \E r \in AnsweredBy("calendar_integration") :
          /\ req[r].trace # <<>>
          /\ req[r].trace[Len(req[r].trace)] = Failed("events.insert")[1]

\* the columns of a row that a save() on its object may write
Written(row, new) ==
    \A f \in DOMAIN row : f \in {"id", "created_at", "meeting_id"} => new[f] = row[f]

\* what one save() may do to a table: the rows stay, each with its id and its
\* created_at (and meeting_id); a row added has a fresh id and the reading of
\* the clock; either one row is added and no row changes, or no row is
\* added and no row but the object's changes
SaveStep(table, after, seq, object) ==
    LET added == DOMAIN after \ DOMAIN table
        changed == {i \in DOMAIN table : after[i] # table[i]}
    IN  /\ DOMAIN table \subseteq DOMAIN after
        /\ \A i \in DOMAIN table : Written(table[i], after[i])
        /\ IF object.object.id = NoId
           THEN /\ added = {seq + 1}
                /\ changed = {}
                /\ object.id = seq + 1
                /\ after[seq + 1].id = seq + 1
                /\ after[seq + 1].created_at = now
           ELSE /\ added = {}
                /\ changed \subseteq {object.object.id}
                /\ object.id = object.object.id

\* C18: id and created_at of a stored Meeting or ActionItem are set once, at
\* creation: save() on an object whose id is None adds one row with a fresh
\* id and a created_at and changes no row; save() on an object whose id is set
\* adds no row and leaves the id, the created_at and, for an ActionItem, the
\* meeting_id of its row as they were, and every other row of both tables
\* unchanged.
C18_IdAndCreatedAtSetOnce ==
    [][ /\ objects'.meetings # objects.meetings \/ meetings' # meetings =>
            /\ SaveStep(meetings, meetings', sqlite_sequence.meetings,
                        objects'.meetings)
            /\ action_items' = action_items
        /\ objects'.action_items # objects.action_items \/ action_items' # action_items =>
            /\ SaveStep(action_items, action_items', sqlite_sequence.action_items,
                        objects'.action_items)
            /\ meetings' = meetings
      ]_vars

\* an update of the first Meeting row after its creation, with other texts,
\* and an update of an ActionItem row by an object that names another
\* meeting than the row, each some time after its row was created
C18_Witness ==
    /\ objects.meetings.id = 1
    /\ objects.meetings.object.id = 1
    /\ 1 \in DOMAIN meetings
    /\ meetings[1].created_at = 0
    /\ meetings[1].summary = objects.meetings.object.summary
    /\ objects.action_items.object.id = 1
    /\ 1 \in DOMAIN action_items
    /\ action_items[1].meeting_id # objects.action_items.object.meeting_id
    /\ action_items[1].completed = objects.action_items.object.completed
    /\ action_items[1].created_at < now - 1

\* C19: a POST /process_audio request answered 400 (no audio_file field, or
\* a file with an empty name) had no effect: the step that answers it writes
\* no file and no row, and the request has made no call before it: no file
\* saved, no transcription, no model call, no Meeting or ActionItem saved.
C19_RejectedHasNoEffect ==
    [][ \A r \in Requests :
          /\ req[r].handler = "process_audio"
          /\ req[r].pc # "done"
          /\ req'[r].pc = "done"
          /\ req'[r].status = 400
          => /\ NoUpload(r)
             /\ req'[r].trace = <<>>
             /\ req'[r].filepath = <<>>
             /\ req'[r].transcription = None
             /\ req'[r].meeting_id = NoId
             /\ req'[r].item_ids = <<>>
             /\ UNCHANGED <<uploads, meetings, action_items, sqlite_sequence>>
      ]_vars

\* one request without the audio_file field and one with a file without a
\* name, both answered 400
C19_Witness ==
    \E r, q \in Answered :
        /\ ~req[r].has_file
        /\ req[r].status = 400
        /\ req[q].has_file
        /\ req[q].filename = <<>>
        /\ req[q].status = 400
        /\ \A n \in StoredNames : uploads[n] = None
        /\ meetings = <<>>

\* the Meeting row and the ActionItem rows the request self has saved are
\* stored, the items under the Meeting's id
RowsKept(self, stored_meetings, stored_items) ==
    /\ self.meeting_id \in DOMAIN stored_meetings
    /\ stored_meetings[self.meeting_id].transcription = self.transcription
    /\ \A i \in 1..Len(self.item_ids) :
          /\ self.item_ids[i] \in DOMAIN stored_items
          /\ stored_items[self.item_ids[i]].meeting_id = self.meeting_id

\* C20: persistence in POST /process_audio is not rolled back: when saving the
\* k-th ActionItem fails after the Meeting was saved the request answers 500
\* and the Meeting row and the k-1 ActionItem rows saved before stay stored;
\* no step of any request removes a row, so the sets of the stored Meeting
\* ids and ActionItem ids never shrink.
C20_NoRollback ==
    [][ /\ DOMAIN meetings \subseteq DOMAIN meetings'
        /\ DOMAIN action_items \subseteq DOMAIN action_items'
        /\ \A r \in Requests :
              /\ req[r].handler = "process_audio"
              /\ req[r].pc = "save_items"
              /\ req'[r].pc = "done"
              => /\ req'[r].status = 500
                 /\ req'[r].trace[Len(req'[r].trace)] = Failed("action_item.save")[1]
                 /\ req'[r].item_ids = req[r].item_ids
                 /\ RowsKept(req'[r], meetings', action_items')
        /\ \A r \in Requests :
              /\ req'[r].handler = "process_audio"
              /\ req'[r].meeting_id # NoId
              => RowsKept(req'[r], meetings', action_items')
      ]_vars

\* saving the second ActionItem failed: the request is answered 500, its
\* Meeting and its first ActionItem are stored
C20_Witness ==
    \E r \in Answered :
        /\ req[r].status = 500
        /\ req[r].trace[Len(req[r].trace)] = Failed("action_item.save")[1]
        /\ Len(req[r].item_ids) = 1
        /\ Len(req[r].action_items) = 2
        /\ RowsKept(req[r], meetings, action_items)

\* the inserts into the calendar the logs of the requests rs hold that did
\* not fail
RECURSIVE Inserted(_)
Inserted(rs) ==
    IF rs = {} THEN 0
    ELSE LET r == CHOOSE q \in rs : TRUE
         IN  (IF req[r].handler = "calendar_integration"
              THEN Succeeded(r, "events.insert") ELSE 0) + Inserted(rs \ {r})

\* C21: in POST /calendar_integration, when the creation of the event fails
\* for the k-th id of the list, the events created for the first k-1 ids stay
\* in the calendar (nothing is undone: the calendar holds every event any
\* request has inserted), no event is attempted for the ids after the k-th,
\* and the answer, the top-level error, reports none of the k-1 events.
C21_FailureKeepsEarlierEvents ==
    /\ Len(events) = Inserted(Requests)
    /\ \A r \in AnsweredBy("calendar_integration") :
          req[r].status = 500 =>
            LET self == req[r]
                k == Len(self.results) + 1
                inserts == {i \in 1..Len(self.trace) :
                              self.trace[i].call = "events.insert"}
            IN  /\ k <= Len(self.action_items)
                /\ \A j \in 1..(k - 1) :
                      /\ self.results[j].item_id = self.action_items[j]
                      /\ self.results[j].event_id \in 1..Len(events)
                      /\ events[self.results[j].event_id] =
                            [id |-> self.results[j].event_id,
                             item_id |-> self.action_items[j]]
                /\ Succeeded(r, "events.insert") = k - 1
                /\ Cardinality(inserts) <= k
                /\ FailedCalls(r) = {Len(self.trace)}
                /\ self.body = <<>>
                /\ self.error \in {"Calendar authentication failed",
                                    "Calendar integration failed",
                                    "Failed to create calendar event"}

\* the insert for the second id of a list failed: the answer is the error and
\* the event of the first id is in the calendar
C21_Witness ==
    \E r \in AnsweredBy("calendar_integration") :
        /\ req[r].status = 500
        /\ Len(req[r].action_items) = 2
        /\ Len(req[r].results) = 1
        /\ req[r].trace[Len(req[r].trace)] = Failed("events.insert")[1]
        /\ events # <<>>
        /\ events[req[r].results[1].event_id].item_id = req[r].action_items[1]

\* C22: the uploaded audio file is removed from the upload folder exactly when
\* the POST /process_audio pipeline completes successfully, after the Meeting
\* and all the ActionItems were saved: the step that answers success removes
\* the file of the request as the last call of the full pipeline, no other
\* step removes a file, and when a request that has saved its file is
\* answered 500 the file is in the upload folder.
C22_RemovedExactlyOnSuccess ==
    [][ /\ \A r \in Requests :
              /\ req[r].handler = "process_audio"
              /\ req[r].pc # "done"
              /\ req'[r].pc = "done"
              => /\ req'[r].status = 200 =>
                      /\ CallNames(r)' = PipelineCalls(Len(req[r].action_items))
                      /\ uploads[req[r].filepath] # None
                      /\ uploads'[req[r].filepath] = None
                 /\ req'[r].status = 500 /\ req[r].filepath # <<>> =>
                      uploads'[req[r].filepath] # None
        /\ \A n \in StoredNames :
              uploads[n] # None /\ uploads'[n] = None =>
                 \E r \in Requests :
                    /\ req[r].handler = "process_audio"
                    /\ req[r].pc = "remove"
                    /\ req[r].filepath = n
                    /\ req'[r].status = 200
      ]_vars

====
